---- MODULE Spec2Model ----
(***************************************************************************)
(* pymgba-mcp: an Emulator facade over the mGBA core (emulator.py) and the *)
(* MCP tool dispatcher call_tool (server.py).                              *)
(*                                                                         *)
(* The facade methods are operators from an Emulator record `e`, the       *)
(* call's arguments and an outcome record `o` (what the native core and    *)
(* the environment answer during the call) to a result record              *)
(*   [e, exc, msg, kind, list, num, info, called]                          *)
(* holding the Emulator after the call, the exception raised ("" when the  *)
(* method returns), the returned data, and whether the core was called;    *)
(* kind is the shape of a call_tool response ("" for a facade method).     *)
(* The native core is not part of the repository: it is modelled by what   *)
(* the facade's calls rely on (a key register, a frame counter, a CPU      *)
(* register snapshot, a byte-addressed bus, an opaque savestate).          *)
(***************************************************************************)
EXTENDS Integers, Sequences, FiniteSets, TLC

VARIABLES emu, ret, advanced, n_run, saved

vars == <<emu, ret, advanced, n_run, saved>>

-----------------------------------------------------------------------------
(* Bounds of the model *)

\* largest frame count passed to run_frames / press_button, and the most
\* frames a session is advanced beyond its starting point
MaxFrames == 2
\* the CPU register snapshot is a value in 0..MaxReg
MaxReg == 1
\* longest list of button names passed to hold/release/set
MaxButtons == 2
\* longest read_memory length and write_memory value list
MaxLen == 2
\* number of mapped bus addresses
MemSize == 2

\* server.py: call_tool runs this many frames after load_rom
WarmupFrames == 10

-----------------------------------------------------------------------------
(* Python values *)

None == <<>>
Some(x) == <<x>>

\* str.lower() on the letters; a string is a sequence of characters
LowerChar(c) ==
  CASE c = "A" -> "a" [] c = "B" -> "b" [] c = "C" -> "c" [] c = "D" -> "d"
    [] c = "E" -> "e" [] c = "F" -> "f" [] c = "G" -> "g" [] c = "H" -> "h"
    [] c = "I" -> "i" [] c = "J" -> "j" [] c = "K" -> "k" [] c = "L" -> "l"
    [] c = "M" -> "m" [] c = "N" -> "n" [] c = "O" -> "o" [] c = "P" -> "p"
    [] c = "Q" -> "q" [] c = "R" -> "r" [] c = "S" -> "s" [] c = "T" -> "t"
    [] c = "U" -> "u" [] c = "V" -> "v" [] c = "W" -> "w" [] c = "X" -> "x"
    [] c = "Y" -> "y" [] c = "Z" -> "z" [] OTHER -> c

Lower(s) == [i \in 1..Len(s) |-> LowerChar(s[i])]

\* x | y on non-negative integers
RECURSIVE BitOr(_, _)
BitOr(x, y) ==
  IF x = 0 THEN y
  ELSE IF y = 0 THEN x
  ELSE (IF x % 2 = 1 \/ y % 2 = 1 THEN 1 ELSE 0) + 2 * BitOr(x \div 2, y \div 2)

\* x & ~y on non-negative integers
RECURSIVE BitAndNot(_, _)
BitAndNot(x, y) ==
  IF x = 0 THEN 0
  ELSE (IF x % 2 = 1 /\ y % 2 = 0 THEN 1 ELSE 0) + 2 * BitAndNot(x \div 2, y \div 2)

\* whether bit i of x is set
Bit(x, i) == (x \div (2 ^ i)) % 2 = 1

-----------------------------------------------------------------------------
(* The native core, as the facade uses it *)

ZeroMem == [a \in 0..(MemSize - 1) |-> 0]

\* ffi.NULL: what mCoreCreate returns when it cannot create a core
NULL ==
  [null |-> TRUE, platform |-> "", rom |-> None, keys |-> 0, frame |-> 0,
   regs |-> 0, mem |-> ZeroMem]

\* lib.mCoreCreate(platform)
mCoreCreate(platform, ok) ==
  IF ok
  THEN [null |-> FALSE, platform |-> platform, rom |-> None, keys |-> 0,
        frame |-> 0, regs |-> 0, mem |-> ZeroMem]
  ELSE NULL

\* core.reset: the machine restarts (frame counter, CPU, RAM); whether the key
\* register survives a reset is the core's business: o.resetKeys
coreReset(c, o) ==
  [c EXCEPT !.frame = 0, !.regs = 0, !.mem = ZeroMem,
            !.keys = IF o.resetKeys THEN 0 ELSE @]

\* core.runFrame: one more frame; the CPU ends where the game takes it
runFrame(c, o) == [c EXCEPT !.frame = @ + 1, !.regs = o.regs]

\* for _ in range(count): core.runFrame(core)
RECURSIVE runFrameLoop(_, _, _)
runFrameLoop(c, count, o) ==
  IF count <= 0 THEN c ELSE runFrameLoop(runFrame(c, o), count - 1, o)

addKeys(c, key) == [c EXCEPT !.keys = BitOr(@, key)]
clearKeys(c, key) == [c EXCEPT !.keys = BitAndNot(@, key)]
setKeys(c, keys) == [c EXCEPT !.keys = keys]

\* core.stateSize: the savestate size of the platform
stateSize(c) == IF c.platform = "GBA" THEN 2 ELSE 1

\* core.saveState: the machine state as a blob of stateSize bytes
saveState(c) ==
  [len |-> stateSize(c), platform |-> c.platform, rom |-> c.rom,
   frame |-> c.frame, regs |-> c.regs, mem |-> c.mem]

\* whether core.loadState accepts the blob: it accepts a blob this ROM's core
\* wrote; what it does with any other blob is the core's business: o.loadStateOk
loadStateAccepts(c, state, o) ==
  \/ state.platform = c.platform /\ state.rom = c.rom /\ state.len >= stateSize(c)
  \/ o.loadStateOk

\* core.loadState on an accepted blob (the key register is not machine state)
loadState(c, state) ==
  [c EXCEPT !.frame = state.frame, !.regs = state.regs, !.mem = state.mem]

\* core.baseVideoSize / core.currentVideoSize, per platform
baseVideoSize(c) ==
  IF c.platform = "GBA" THEN [w |-> 240, h |-> 160] ELSE [w |-> 256, h |-> 224]
currentVideoSize(c) ==
  IF c.platform = "GBA" THEN [w |-> 240, h |-> 160] ELSE [w |-> 160, h |-> 144]

-----------------------------------------------------------------------------
(* class Emulator *)

\* Emulator.BUTTONS
BUTTONS ==
  (<<"a">> :> 0) @@ (<<"b">> :> 1)
  @@ (<<"s", "e", "l", "e", "c", "t">> :> 2) @@ (<<"s", "t", "a", "r", "t">> :> 3)
  @@ (<<"r", "i", "g", "h", "t">> :> 4) @@ (<<"l", "e", "f", "t">> :> 5)
  @@ (<<"u", "p">> :> 6) @@ (<<"d", "o", "w", "n">> :> 7)
  @@ (<<"r">> :> 8) @@ (<<"l">> :> 9)

\* Emulator.__init__
__init__ ==
  [_core |-> None, _video_buffer |-> None, _video_width |-> 0,
   _video_height |-> 0, _screen_width |-> 0, _screen_height |-> 0,
   _screen_offset_x |-> 0, _screen_offset_y |-> 0, _rom_path |-> None,
   _is_gba |-> FALSE, _savestate |-> None, _held_keys |-> 0]

\* `if self._core`: None and ffi.NULL are both falsy
HasCore(e) == e._core # None /\ ~e._core[1].null

\* Emulator.is_loaded
is_loaded(e) == e._core # None

\* Emulator.is_gba
is_gba(e) == e._is_gba

\* Emulator.buttons
buttons(e) ==
  IF e._is_gba
  THEN BUTTONS
  ELSE [k \in DOMAIN BUTTONS \ {<<"l">>, <<"r">>} |-> BUTTONS[k]]

\* Emulator.frame_count
frame_count(e) == IF ~HasCore(e) THEN 0 ELSE e._core[1].frame

\* the result of a facade call
NoInfo == [loaded |-> FALSE, frame_count |-> None, platform |-> None]
Return(e, called) ==
  [e |-> e, exc |-> "", msg |-> "", kind |-> "", list |-> <<>>, num |-> 0,
   info |-> NoInfo, called |-> called]
Raise(e, msg, called) ==
  [Return(e, called) EXCEPT !.exc = "EmulatorError", !.msg = msg]

\* what the core and the environment answer during a call, when nothing fails:
\* createOk, initOk, loadOk: mCoreCreate, core.init and mCoreLoadFile succeed;
\* resetKeys: core.reset clears the key register; regs: the register snapshot
\* the frames run end on; saveOk: core.saveState succeeds; loadStateOk:
\* core.loadState accepts a blob it did not write; faults: the offsets of the
\* bus accesses that raise; pillow: Pillow can be imported
Fine ==
  [createOk |-> TRUE, initOk |-> TRUE, loadOk |-> TRUE, resetKeys |-> FALSE,
   regs |-> 0, saveOk |-> TRUE, loadStateOk |-> FALSE, faults |-> {},
   pillow |-> TRUE]

\* Path(rom_path).exists(): the ROM files on disk
Files ==
  {[name |-> "tetris", suffix |-> <<".", "g", "b">>],
   [name |-> "emerald", suffix |-> <<".", "G", "B", "A">>]}

\* Emulator.load_rom (the BIOS file, when given, changes nothing modelled here)
load_rom(e, rom_path, o) ==
  IF rom_path \notin Files THEN Raise(e, "ROM file not found", FALSE)
  ELSE
    LET gba == Lower(rom_path.suffix) = <<".", "g", "b", "a">>
        e1 == [e EXCEPT !._is_gba = gba]
        platform == IF gba THEN "GBA" ELSE "GB"
        c0 == mCoreCreate(platform, o.createOk)
    IN  IF c0 = NULL
        THEN Raise([e1 EXCEPT !._core = Some(NULL)], "Failed to create core", TRUE)
        ELSE IF ~o.initOk
        THEN Raise([e1 EXCEPT !._core = None], "Failed to initialize core", TRUE)
        ELSE IF ~o.loadOk
        THEN Raise([e1 EXCEPT !._core = None], "Failed to load ROM", TRUE)
        ELSE
          LET c1 == [c0 EXCEPT !.rom = Some(rom_path)]
              base == baseVideoSize(c1)
              c2 == coreReset(c1, o)
              cur == currentVideoSize(c2)
              e2 == [e1 EXCEPT !._core = Some(c2),
                               !._rom_path = Some(rom_path),
                               !._video_width = base.w,
                               !._video_height = base.h,
                               !._video_buffer = Some(base.w * base.h),
                               !._screen_width = cur.w,
                               !._screen_height = cur.h,
                               !._screen_offset_x = 0,
                               !._screen_offset_y = 0]
          IN  [Return(e2, TRUE) EXCEPT
                 !.info = [loaded |-> TRUE, frame_count |-> None,
                           platform |-> Some(IF gba THEN "GBA" ELSE "GB/GBC")]]

\* Emulator.reset
reset(e, o) ==
  IF ~HasCore(e) THEN Raise(e, "No ROM loaded", FALSE)
  ELSE Return([e EXCEPT !._core = Some(coreReset(e._core[1], o)),
                        !._held_keys = 0], TRUE)

\* Emulator.run_frames
run_frames(e, count, o) ==
  IF ~HasCore(e) THEN Raise(e, "No ROM loaded", FALSE)
  ELSE
    LET c == runFrameLoop(e._core[1], count, o)
    IN  [Return([e EXCEPT !._core = Some(c)], TRUE) EXCEPT !.num = c.frame]

\* _button_to_key looking the name up as it is spelled
_button_to_key_exact(e, button) ==
  IF button \notin DOMAIN buttons(e)
  THEN [exc |-> TRUE, key |-> 0]
  ELSE [exc |-> FALSE, key |-> 2 ^ buttons(e)[button]]

\* Emulator._button_to_key: [exc, key]
_button_to_key(e, button) ==
  LET button_lower == Lower(button)
  IN  IF button_lower \notin DOMAIN buttons(e)
      THEN [exc |-> TRUE, key |-> 0]
      ELSE [exc |-> FALSE, key |-> 2 ^ buttons(e)[button_lower]]

\* press_button writing the whole key register: setKeys(key), frames, setKeys(0)
press_button_setKeys(e, button, frames, o) ==
  IF ~HasCore(e) THEN Raise(e, "No ROM loaded", FALSE)
  ELSE
    LET k == _button_to_key(e, button)
    IN  IF k.exc THEN Raise(e, "Invalid button", FALSE)
        ELSE
          LET c1 == setKeys(e._core[1], k.key)
              c2 == runFrameLoop(c1, frames, o)
              c3 == setKeys(c2, 0)
          IN  Return([e EXCEPT !._core = Some(c3)], TRUE)

\* Emulator.press_button
press_button(e, button, frames, o) ==
  IF ~HasCore(e) THEN Raise(e, "No ROM loaded", FALSE)
  ELSE
    LET k == _button_to_key(e, button)
    IN  IF k.exc THEN Raise(e, "Invalid button", FALSE)
        ELSE
          LET c1 == addKeys(e._core[1], k.key)
              c2 == runFrameLoop(c1, frames, o)
              c3 == clearKeys(c2, k.key)
          IN  Return([e EXCEPT !._core = Some(c3)], TRUE)

\* keys = 0; for button in buttons: keys |= self._button_to_key(button)
RECURSIVE keysOf(_, _, _)
keysOf(e, btns, keys) ==
  IF btns = <<>> THEN [exc |-> FALSE, keys |-> keys]
  ELSE
    LET k == _button_to_key(e, Head(btns))
    IN  IF k.exc THEN [exc |-> TRUE, keys |-> keys]
        ELSE keysOf(e, Tail(btns), BitOr(keys, k.key))

\* hold_buttons replacing the held set: self._held_keys = keys
hold_buttons_replacing(e, btns) ==
  IF ~HasCore(e) THEN Raise(e, "No ROM loaded", FALSE)
  ELSE
    LET k == keysOf(e, btns, 0)
    IN  IF k.exc THEN Raise(e, "Invalid button", FALSE)
        ELSE Return([e EXCEPT !._held_keys = k.keys,
                              !._core = Some(setKeys(e._core[1], k.keys))], TRUE)

\* Emulator.hold_buttons
hold_buttons(e, btns) ==
  IF ~HasCore(e) THEN Raise(e, "No ROM loaded", FALSE)
  ELSE
    LET k == keysOf(e, btns, 0)
    IN  IF k.exc THEN Raise(e, "Invalid button", FALSE)
        ELSE
          LET held == BitOr(e._held_keys, k.keys)
          IN  Return([e EXCEPT !._held_keys = held,
                               !._core = Some(setKeys(e._core[1], held))], TRUE)

\* for button in buttons: key = self._button_to_key(button); self._held_keys &= ~key
RECURSIVE releaseLoop(_, _)
releaseLoop(e, btns) ==
  IF btns = <<>> THEN [exc |-> FALSE, e |-> e]
  ELSE
    LET k == _button_to_key(e, Head(btns))
    IN  IF k.exc THEN [exc |-> TRUE, e |-> e]
        ELSE releaseLoop([e EXCEPT !._held_keys = BitAndNot(@, k.key)], Tail(btns))

\* Emulator.release_buttons; btns is None (release all) or Some(list)
release_buttons(e, btns) ==
  IF ~HasCore(e) THEN Raise(e, "No ROM loaded", FALSE)
  ELSE
    LET r == IF btns = None
             THEN [exc |-> FALSE, e |-> [e EXCEPT !._held_keys = 0]]
             ELSE releaseLoop(e, btns[1])
    IN  IF r.exc THEN Raise(r.e, "Invalid button", FALSE)
        ELSE Return([r.e EXCEPT
                       !._core = Some(setKeys(r.e._core[1], r.e._held_keys))], TRUE)

\* set_buttons adding to the held set: self._held_keys |= keys
set_buttons_additive(e, btns) ==
  IF ~HasCore(e) THEN Raise(e, "No ROM loaded", FALSE)
  ELSE
    LET k == keysOf(e, btns, 0)
    IN  IF k.exc THEN Raise(e, "Invalid button", FALSE)
        ELSE
          LET held == BitOr(e._held_keys, k.keys)
          IN  Return([e EXCEPT !._held_keys = held,
                               !._core = Some(setKeys(e._core[1], held))], TRUE)

\* Emulator.set_buttons
set_buttons(e, btns) ==
  IF ~HasCore(e) THEN Raise(e, "No ROM loaded", FALSE)
  ELSE
    LET k == keysOf(e, btns, 0)
    IN  IF k.exc THEN Raise(e, "Invalid button", FALSE)
        ELSE Return([e EXCEPT !._held_keys = k.keys,
                              !._core = Some(setKeys(e._core[1], k.keys))], TRUE)

\* Emulator.clear_buttons
clear_buttons(e) ==
  IF ~HasCore(e) THEN Raise(e, "No ROM loaded", FALSE)
  ELSE Return([e EXCEPT !._held_keys = 0,
                        !._core = Some(setKeys(e._core[1], 0))], TRUE)

\* Emulator.take_screenshot: the PNG itself is not modelled
take_screenshot(e, o) ==
  IF ~HasCore(e) \/ e._video_buffer = None THEN Raise(e, "No ROM loaded", FALSE)
  ELSE IF ~o.pillow THEN Raise(e, "Pillow is required for screenshots", FALSE)
  ELSE IF e._video_width <= 0 \/ e._video_height <= 0
  THEN Raise(e, "Video buffer not initialized", FALSE)
  ELSE Return(e, FALSE)

\* core.busRead8 / core.busWrite8 on an access that does not fault; an address
\* outside the mapped range reads 0 and ignores writes
busRead8(c, a) == IF a \in DOMAIN c.mem THEN c.mem[a] ELSE 0
busWrite8(c, a, v) == IF a \in DOMAIN c.mem THEN [c EXCEPT !.mem[a] = v] ELSE c

\* for i in range(length): try: result.append(busRead8(address + i) & 0xFF)
\*                         except Exception: result.append(0)
\* o.faults: the offsets i whose bus access raises
RECURSIVE readLoop(_, _, _, _, _, _)
readLoop(c, address, length, i, result, o) ==
  IF i >= length THEN result
  ELSE readLoop(c, address, length, i + 1,
                Append(result, IF i \in o.faults
                               THEN 0
                               ELSE busRead8(c, address + i) % 256), o)

\* read_memory giving up on a faulting byte, as write_memory does
read_memory_strict(e, address, length, o) ==
  IF ~HasCore(e) THEN Raise(e, "No ROM loaded", FALSE)
  ELSE IF o.faults \cap (0..(length - 1)) # {}
  THEN Raise(e, "Failed to read memory", TRUE)
  ELSE [Return(e, length > 0) EXCEPT
          !.list = readLoop(e._core[1], address, length, 0, <<>>, o)]

\* Emulator.read_memory
read_memory(e, address, length, o) ==
  IF ~HasCore(e) THEN Raise(e, "No ROM loaded", FALSE)
  ELSE [Return(e, length > 0) EXCEPT
          !.list = readLoop(e._core[1], address, length, 0, <<>>, o)]

\* for i, value in enumerate(values): try: busWrite8(address + i, value & 0xFF)
\*                                    except Exception: raise EmulatorError
\* [exc, at, c]: at is the offset whose write raised
RECURSIVE writeLoop(_, _, _, _, _)
writeLoop(c, address, values, i, o) ==
  IF i >= Len(values) THEN [exc |-> FALSE, at |-> i, c |-> c]
  ELSE IF i \in o.faults THEN [exc |-> TRUE, at |-> i, c |-> c]
  ELSE writeLoop(busWrite8(c, address + i, values[i + 1] % 256),
                 address, values, i + 1, o)

\* write_memory rolling the bytes back when one write fails
write_memory_atomic(e, address, values, o) ==
  IF ~HasCore(e) THEN Raise(e, "No ROM loaded", FALSE)
  ELSE
    LET w == writeLoop(e._core[1], address, values, 0, o)
        e1 == [e EXCEPT !._core = Some(w.c)]
    IN  IF w.exc
        THEN [Raise(e, "Failed to write to address", TRUE) EXCEPT
                !.num = address + w.at]
        ELSE Return(e1, Len(values) > 0)

\* Emulator.write_memory; on failure num is the address named in the message
write_memory(e, address, values, o) ==
  IF ~HasCore(e) THEN Raise(e, "No ROM loaded", FALSE)
  ELSE
    LET w == writeLoop(e._core[1], address, values, 0, o)
        e1 == [e EXCEPT !._core = Some(w.c)]
    IN  IF w.exc
        THEN [Raise(e1, "Failed to write to address", TRUE) EXCEPT
                !.num = address + w.at]
        ELSE Return(e1, Len(values) > 0)

\* save_state caching the first savestate only
save_state_once(e, o) ==
  IF ~HasCore(e) THEN Raise(e, "No ROM loaded", FALSE)
  ELSE IF ~o.saveOk THEN Raise(e, "Failed to save state", TRUE)
  ELSE
    LET state == saveState(e._core[1])
    IN  [Return([e EXCEPT !._savestate = IF @ = None THEN Some(state) ELSE @],
                TRUE) EXCEPT !.num = state.len]

\* Emulator.save_state; num is the length of the bytes returned
save_state(e, o) ==
  IF ~HasCore(e) THEN Raise(e, "No ROM loaded", FALSE)
  ELSE IF ~o.saveOk THEN Raise(e, "Failed to save state", TRUE)
  ELSE
    LET state == saveState(e._core[1])
    IN  [Return([e EXCEPT !._savestate = Some(state)], TRUE) EXCEPT
           !.num = state.len]

\* load_state without the size check
load_state_unchecked(e, state, o) ==
  IF ~HasCore(e) THEN Raise(e, "No ROM loaded", FALSE)
  ELSE
    LET st == IF state = None THEN e._savestate ELSE state
    IN  IF st = None THEN Raise(e, "No savestate available", FALSE)
        ELSE IF ~loadStateAccepts(e._core[1], st[1], o)
        THEN Raise(e, "Failed to load state", TRUE)
        ELSE Return([e EXCEPT !._core = Some(loadState(e._core[1], st[1]))], TRUE)

\* Emulator.load_state; state is None or Some(bytes)
load_state(e, state, o) ==
  IF ~HasCore(e) THEN Raise(e, "No ROM loaded", FALSE)
  ELSE
    LET st == IF state = None THEN e._savestate ELSE state
    IN  IF st = None THEN Raise(e, "No savestate available", FALSE)
        ELSE IF st[1].len < stateSize(e._core[1])
        THEN Raise(e, "State data too small", TRUE)
        ELSE IF ~loadStateAccepts(e._core[1], st[1], o)
        THEN Raise(e, "Failed to load state", TRUE)
        ELSE Return([e EXCEPT !._core = Some(loadState(e._core[1], st[1]))], TRUE)

\* Emulator.get_registers: num is the register snapshot, list the number of
\* fields of the mapping (17 for the ARM core, 10 for the SM83 core)
get_registers(e) ==
  IF ~HasCore(e) THEN Raise(e, "No ROM loaded", FALSE)
  ELSE [Return(e, TRUE) EXCEPT
          !.num = e._core[1].regs,
          !.list = <<IF e._is_gba THEN 17 ELSE 10>>]

\* Emulator.dump_oam: list holds the number of sprite records; the records
\* themselves are not modelled
dump_oam(e) ==
  IF ~HasCore(e) THEN Raise(e, "No ROM loaded", FALSE)
  ELSE [Return(e, TRUE) EXCEPT !.list = <<IF e._is_gba THEN 128 ELSE 40>>]

\* Emulator.get_info
get_info(e) ==
  IF ~HasCore(e) THEN Return(e, FALSE)
  ELSE [Return(e, TRUE) EXCEPT
          !.info = [loaded |-> TRUE, frame_count |-> Some(frame_count(e)),
                    platform |-> Some(IF e._is_gba THEN "GBA" ELSE "GB/GBC")]]

\* Emulator.close
close(e) ==
  Return([e EXCEPT !._core = None, !._video_buffer = None, !._rom_path = None,
                   !._savestate = None, !._held_keys = 0], HasCore(e))

-----------------------------------------------------------------------------
(* server.py *)

\* _error_response: a text-only "Error: <message>" response
_error_response(r, message) ==
  [r EXCEPT !.exc = "", !.msg = message, !.kind = "error", !.list = <<>>,
            !.num = 0, !.info = NoInfo]

\* _text_response
_text_response(r) == [r EXCEPT !.kind = "text"]

\* _screenshot_response
_screenshot_response(r) == [r EXCEPT !.kind = "image"]

\* an exception other than EmulatorError raised inside call_tool
RaiseOther(e, exc, called) == [Return(e, called) EXCEPT !.exc = exc]

\* r2 after r1 in the same handler
After(r1, r2) == [r2 EXCEPT !.called = r1.called \/ @]

\* v; then F on its value (v is evaluated once)
Then(v, F(_)) == CHOOSE y \in {F(x) : x \in {v}} : TRUE

\* arguments.get(key, default)
Get(arguments, key, default) ==
  IF key \in DOMAIN arguments THEN arguments[key] ELSE default

\* the value of a digit, 99 for any other character
DigitVal(c) ==
  CASE c = "0" -> 0 [] c = "1" -> 1 [] c = "2" -> 2 [] c = "3" -> 3
    [] c = "4" -> 4 [] c = "5" -> 5 [] c = "6" -> 6 [] c = "7" -> 7
    [] c = "8" -> 8 [] c = "9" -> 9
    [] c \in {"a", "A"} -> 10 [] c \in {"b", "B"} -> 11 [] c \in {"c", "C"} -> 12
    [] c \in {"d", "D"} -> 13 [] c \in {"e", "E"} -> 14 [] c \in {"f", "F"} -> 15
    [] OTHER -> 99

RECURSIVE parseDigits(_, _, _)
parseDigits(s, base, acc) ==
  IF s = <<>> THEN [ok |-> TRUE, val |-> acc]
  ELSE IF DigitVal(Head(s)) >= base THEN [ok |-> FALSE, val |-> 0]
  ELSE parseDigits(Tail(s), base, acc * base + DigitVal(Head(s)))

\* int(address, 16) if address.startswith("0x") else int(address), on an
\* unsigned literal; ok is FALSE where int raises ValueError
parseAddress(s) ==
  IF Len(s) >= 2 /\ SubSeq(s, 1, 2) = <<"0", "x">>
  THEN IF Len(s) = 2 THEN [ok |-> FALSE, val |-> 0]
       ELSE parseDigits(SubSeq(s, 3, Len(s)), 16, 0)
  ELSE IF s = <<>> THEN [ok |-> FALSE, val |-> 0]
       ELSE parseDigits(s, 10, 0)

\* the address argument: [int |-> n] or [str |-> characters]
address_of(a) ==
  IF "str" \in DOMAIN a THEN parseAddress(a.str) ELSE [ok |-> TRUE, val |-> a.int]

NoRom == "No ROM loaded. Call load_rom first."

\* load_rom without the frames run after loading
tool_load_rom_cold(e, arguments, o) ==
  IF "rom_path" \notin DOMAIN arguments THEN RaiseOther(e, "KeyError", FALSE)
  ELSE
    Then(load_rom(e, arguments.rom_path, o), LAMBDA r1 :
      IF r1.exc # "" THEN r1
      ELSE Then(After(r1, take_screenshot(r1.e, o)), LAMBDA r3 :
        IF r3.exc # "" THEN r3
        ELSE _screenshot_response([r3 EXCEPT !.info = r1.info])))

\* call_tool, name == "load_rom"
tool_load_rom(e, arguments, o) ==
  IF "rom_path" \notin DOMAIN arguments THEN RaiseOther(e, "KeyError", FALSE)
  ELSE
    Then(load_rom(e, arguments.rom_path, o), LAMBDA r1 :
      IF r1.exc # "" THEN r1
      ELSE Then(After(r1, run_frames(r1.e, WarmupFrames, o)), LAMBDA r2 :
        IF r2.exc # "" THEN r2
        ELSE Then(After(r2, take_screenshot(r2.e, o)), LAMBDA r3 :
          IF r3.exc # "" THEN r3
          ELSE _screenshot_response([r3 EXCEPT !.info = r1.info]))))

\* call_tool, name == "run_frames"
tool_run_frames(e, arguments, o) ==
  IF ~is_loaded(e) THEN _error_response(Return(e, FALSE), NoRom)
  ELSE
    Then(run_frames(e, Get(arguments, "frames", 1), o), LAMBDA r1 :
      IF r1.exc # "" THEN r1
      ELSE Then(After(r1, take_screenshot(r1.e, o)), LAMBDA r2 :
        IF r2.exc # "" THEN r2
        ELSE _screenshot_response([r2 EXCEPT !.num = r1.num])))

\* call_tool, name == "press_button"
tool_press_button(e, arguments, o) ==
  IF ~is_loaded(e) THEN _error_response(Return(e, FALSE), NoRom)
  ELSE IF "button" \notin DOMAIN arguments THEN RaiseOther(e, "KeyError", FALSE)
  ELSE
    Then(press_button(e, arguments.button, Get(arguments, "frames", 1), o),
         LAMBDA r1 :
      IF r1.exc # "" THEN r1
      ELSE Then(After(r1, take_screenshot(r1.e, o)), LAMBDA r2 :
        IF r2.exc # "" THEN r2 ELSE _screenshot_response(r2)))

\* call_tool, name == "hold_buttons"
tool_hold_buttons(e, arguments, o) ==
  IF ~is_loaded(e) THEN _error_response(Return(e, FALSE), NoRom)
  ELSE IF "buttons" \notin DOMAIN arguments THEN RaiseOther(e, "KeyError", FALSE)
  ELSE
    Then(set_buttons(e, arguments.buttons), LAMBDA r1 :
      IF r1.exc # "" THEN r1 ELSE _text_response(r1))

\* call_tool, name == "release_buttons"
tool_release_buttons(e, arguments, o) ==
  IF ~is_loaded(e) THEN _error_response(Return(e, FALSE), NoRom)
  ELSE
    Then(clear_buttons(e), LAMBDA r1 :
      IF r1.exc # "" THEN r1 ELSE _text_response(r1))

\* call_tool, name == "take_screenshot"
tool_take_screenshot(e, arguments, o) ==
  IF ~is_loaded(e) THEN _error_response(Return(e, FALSE), NoRom)
  ELSE
    Then(take_screenshot(e, o), LAMBDA r1 :
      IF r1.exc # "" THEN r1
      ELSE _screenshot_response([r1 EXCEPT !.num = frame_count(e),
                                           !.called = HasCore(e)]))

\* call_tool, name == "read_memory"
tool_read_memory(e, arguments, o) ==
  IF ~is_loaded(e) THEN _error_response(Return(e, FALSE), NoRom)
  ELSE IF "address" \notin DOMAIN arguments THEN RaiseOther(e, "KeyError", FALSE)
  ELSE
    Then(address_of(arguments.address), LAMBDA address :
      IF ~address.ok THEN RaiseOther(e, "ValueError", FALSE)
      ELSE Then(read_memory(e, address.val, Get(arguments, "length", 1), o),
                LAMBDA r1 :
        IF r1.exc # "" THEN r1
        ELSE _text_response([r1 EXCEPT !.num = Get(arguments, "length", 1)])))

\* write_memory reading its arguments before it looks for a session
tool_write_memory_args_first(e, arguments, o) ==
  IF {"address", "values"} \ DOMAIN arguments # {}
  THEN RaiseOther(e, "KeyError", FALSE)
  ELSE IF ~is_loaded(e) THEN _error_response(Return(e, FALSE), NoRom)
  ELSE
    Then(address_of(arguments.address), LAMBDA address :
      IF ~address.ok THEN RaiseOther(e, "ValueError", FALSE)
      ELSE Then(write_memory(e, address.val, arguments.values, o), LAMBDA r1 :
        IF r1.exc # "" THEN r1
        ELSE _text_response([r1 EXCEPT !.num = Len(arguments.values)])))

\* call_tool, name == "write_memory"
tool_write_memory(e, arguments, o) ==
  IF ~is_loaded(e) THEN _error_response(Return(e, FALSE), NoRom)
  ELSE IF {"address", "values"} \ DOMAIN arguments # {}
  THEN RaiseOther(e, "KeyError", FALSE)
  ELSE
    Then(address_of(arguments.address), LAMBDA address :
      IF ~address.ok THEN RaiseOther(e, "ValueError", FALSE)
      ELSE Then(write_memory(e, address.val, arguments.values, o), LAMBDA r1 :
        IF r1.exc # "" THEN r1
        ELSE _text_response([r1 EXCEPT !.num = Len(arguments.values)])))

\* call_tool, name == "save_state"
tool_save_state(e, arguments, o) ==
  IF ~is_loaded(e) THEN _error_response(Return(e, FALSE), NoRom)
  ELSE
    Then(save_state(e, o), LAMBDA r1 :
      IF r1.exc # "" THEN r1 ELSE _text_response(r1))

\* call_tool, name == "load_state"
tool_load_state(e, arguments, o) ==
  IF ~is_loaded(e) THEN _error_response(Return(e, FALSE), NoRom)
  ELSE
    Then(load_state(e, None, o), LAMBDA r1 :
      IF r1.exc # "" THEN r1
      ELSE Then(After(r1, take_screenshot(r1.e, o)), LAMBDA r2 :
        IF r2.exc # "" THEN r2
        ELSE _screenshot_response([r2 EXCEPT !.num = frame_count(r2.e),
                                             !.called = TRUE])))

\* call_tool, name == "get_registers"
tool_get_registers(e, arguments, o) ==
  IF ~is_loaded(e) THEN _error_response(Return(e, FALSE), NoRom)
  ELSE
    Then(get_registers(e), LAMBDA r1 :
      IF r1.exc # "" THEN r1 ELSE _text_response(r1))

\* call_tool, name == "dump_oam"; the active_only filter acts on the sprite
\* records, which are not modelled: the response carries no count
tool_dump_oam(e, arguments, o) ==
  IF ~is_loaded(e) THEN _error_response(Return(e, FALSE), NoRom)
  ELSE
    Then(dump_oam(e), LAMBDA r1 :
      IF r1.exc # "" THEN r1 ELSE _text_response([r1 EXCEPT !.list = <<>>]))

\* call_tool, name == "reset"
tool_reset(e, arguments, o) ==
  IF ~is_loaded(e) THEN _error_response(Return(e, FALSE), NoRom)
  ELSE
    Then(reset(e, o), LAMBDA r1 :
      IF r1.exc # "" THEN r1
      ELSE Then(After(r1, run_frames(r1.e, 1, o)), LAMBDA r2 :
        IF r2.exc # "" THEN r2
        ELSE Then(After(r2, take_screenshot(r2.e, o)), LAMBDA r3 :
          IF r3.exc # "" THEN r3 ELSE _screenshot_response(r3))))

\* call_tool, name == "get_info"
tool_get_info(e, arguments, o) ==
  _text_response(
    [Return(e, HasCore(e)) EXCEPT
       !.info = [loaded |-> is_loaded(e),
                 frame_count |-> Some(IF is_loaded(e) THEN frame_count(e) ELSE 0),
                 platform |-> IF is_gba(e) THEN Some("GBA")
                              ELSE IF is_loaded(e) THEN Some("GB/GBC")
                              ELSE None]])

\* TOOLS: the names of the catalogue
TOOLS ==
  {"load_rom", "run_frames", "press_button", "hold_buttons", "release_buttons",
   "take_screenshot", "read_memory", "write_memory", "save_state", "load_state",
   "get_registers", "dump_oam", "reset", "get_info"}

\* the body of call_tool's try block
dispatch(e, name, arguments, o) ==
  CASE name = "load_rom" -> tool_load_rom(e, arguments, o)
    [] name = "run_frames" -> tool_run_frames(e, arguments, o)
    [] name = "press_button" -> tool_press_button(e, arguments, o)
    [] name = "hold_buttons" -> tool_hold_buttons(e, arguments, o)
    [] name = "release_buttons" -> tool_release_buttons(e, arguments, o)
    [] name = "take_screenshot" -> tool_take_screenshot(e, arguments, o)
    [] name = "read_memory" -> tool_read_memory(e, arguments, o)
    [] name = "write_memory" -> tool_write_memory(e, arguments, o)
    [] name = "save_state" -> tool_save_state(e, arguments, o)
    [] name = "load_state" -> tool_load_state(e, arguments, o)
    [] name = "get_registers" -> tool_get_registers(e, arguments, o)
    [] name = "dump_oam" -> tool_dump_oam(e, arguments, o)
    [] name = "reset" -> tool_reset(e, arguments, o)
    [] name = "get_info" -> tool_get_info(e, arguments, o)
    [] OTHER -> _error_response(Return(e, FALSE), "Unknown tool")

\* call_tool with the EmulatorError handler only
call_tool_narrow(e, name, arguments, o) ==
  Then(dispatch(e, name, arguments, o), LAMBDA r :
    IF r.exc = "EmulatorError" THEN _error_response(r, r.msg) ELSE r)

\* call_tool: the try block and its two except clauses
call_tool(e, name, arguments, o) ==
  Then(dispatch(e, name, arguments, o), LAMBDA r :
    IF r.exc = "EmulatorError" THEN _error_response(r, r.msg)
    ELSE IF r.exc # "" THEN _error_response(r, "Unexpected error")
    ELSE r)

-----------------------------------------------------------------------------
(* Inputs *)

\* sequences over S of length at most n
SeqUpTo(S, n) == UNION {[1..k -> S] : k \in 0..n}

\* a ROM path that is not on disk
MissingRom == [name |-> "missing", suffix |-> <<".", "g", "b", "a">>]
RomPaths == Files \cup {MissingRom}

\* button names: valid on both platforms, valid on GBA only, upper case, unknown
ButtonInputs == {<<"a">>, <<"b">>, <<"l">>, <<"A">>, <<"x">>}
ButtonLists == SeqUpTo(ButtonInputs, MaxButtons)
\* the names the protocol-layer actions draw from
ToolButtonInputs == {<<"a">>, <<"b">>, <<"x">>}
\* the register snapshot the frames run by a protocol-layer action end on
ToolRegs == {MaxReg}

FrameInputs == 0..MaxFrames
Addresses == 0..(MemSize - 1)
Lengths == 0..MaxLen
\* byte values as passed by a caller, one of them outside 0..255
ByteInputs == {1, 256}
ValueLists == SeqUpTo(ByteInputs, MaxLen)

\* the offsets of the bus accesses that raise, among n accesses
FaultSets(n) == SUBSET (0..(n - 1))

\* the ways load_rom can go: all well, or one of the core's calls fails
LoadOutcomes ==
  {Fine, [Fine EXCEPT !.createOk = FALSE], [Fine EXCEPT !.initOk = FALSE],
   [Fine EXCEPT !.loadOk = FALSE]}

\* the observable result of a call: the result without the Emulator
Obs(op, r) ==
  [op |-> op, exc |-> r.exc, msg |-> r.msg, kind |-> r.kind, list |-> r.list,
   num |-> r.num, info |-> r.info, called |-> r.called]

\* no call has returned since the caller took the last result
Idle == Obs("idle", Return(__init__, FALSE))

-----------------------------------------------------------------------------
(* State: emu is the process-wide Emulator (get_emulator), ret the result of *)
(* the call that has just returned (Idle once the caller has taken it).      *)
(* advanced counts the frames that run_frames and press_button calls have    *)
(* advanced, and is what the model caps. n_run is Some(N) while the calls    *)
(* since the last successful load_rom tool call are run_frames and get_info  *)
(* tool calls only, N being the frames those run_frames calls ran; it is     *)
(* None otherwise. saved is Some of the register snapshot and the frame       *)
(* counter as they were when save_state last succeeded, and None once        *)
(* load_rom has replaced the core or close has released it.                  *)

Init ==
  /\ emu = __init__
  /\ ret = Idle
  /\ advanced = 0
  /\ n_run = None
  /\ saved = None

\* the caller takes the result; the next call can start
Deliver ==
  /\ ret # Idle
  /\ ret' = Idle
  /\ UNCHANGED <<emu, advanced, n_run, saved>>

\* a call returns r
Returns(op, r) ==
  /\ emu' = r.e
  /\ ret' = Obs(op, r)
  /\ saved' = IF op = "save_state" /\ r.exc = "" /\ r.kind # "error"
              THEN Some([regs |-> get_registers(r.e).num,
                         frame |-> frame_count(r.e)])
              ELSE IF op \in {"load_rom", "close"} /\ r.called THEN None
              ELSE saved

\* a call that ran `frames` frames when ran is TRUE
Advance(frames, ran) == advanced' = IF ran THEN advanced + frames ELSE advanced

-----------------------------------------------------------------------------
(* The protocol layer: one action per tool of the catalogue *)

\* a call of call_tool that advances no frame and is not load_rom or get_info
Call(name, arguments, o) ==
  /\ ret = Idle
  /\ \E r \in {call_tool(emu, name, arguments, o)} :
    /\ Returns(name, r)
    /\ advanced' = advanced
    /\ n_run' = None

CallLoadRom ==
  /\ ret = Idle
  /\ \E arguments \in {<<>>} \cup {[rom_path |-> p] : p \in RomPaths},
     lo \in LoadOutcomes, regs \in ToolRegs :
    \E r \in {call_tool(emu, "load_rom", arguments, [lo EXCEPT !.regs = regs])} :
      /\ Returns("load_rom", r)
      /\ advanced' = advanced
      /\ n_run' = IF r.kind = "image" THEN Some(0) ELSE None

CallRunFrames ==
  /\ ret = Idle
  /\ \E arguments \in {<<>>} \cup {[frames |-> f] : f \in FrameInputs},
     regs \in ToolRegs :
    \E frames \in {Get(arguments, "frames", 1)},
       r \in {call_tool(emu, "run_frames", arguments, [Fine EXCEPT !.regs = regs])} :
      /\ advanced + frames <= MaxFrames
      /\ Returns("run_frames", r)
      /\ Advance(frames, r.kind = "image")
      /\ n_run' = IF n_run # None /\ r.kind = "image"
                  THEN Some(n_run[1] + frames) ELSE n_run

CallPressButton ==
  /\ ret = Idle
  /\ \E arguments \in {<<>>} \cup {[button |-> b] : b \in ToolButtonInputs}
                   \cup {[button |-> b, frames |-> f] :
                           b \in ToolButtonInputs, f \in FrameInputs},
     regs \in ToolRegs :
    \E frames \in {Get(arguments, "frames", 1)},
       r \in {call_tool(emu, "press_button", arguments, [Fine EXCEPT !.regs = regs])} :
      /\ advanced + frames <= MaxFrames
      /\ Returns("press_button", r)
      /\ Advance(frames, r.kind = "image")
      /\ n_run' = None

CallHoldButtons ==
  \E arguments \in {<<>>} \cup {[buttons |-> l] :
                                  l \in SeqUpTo(ToolButtonInputs, MaxButtons)} :
    Call("hold_buttons", arguments, Fine)

CallReleaseButtons == Call("release_buttons", <<>>, Fine)

CallTakeScreenshot ==
  \E pillow \in BOOLEAN :
    Call("take_screenshot", <<>>, [Fine EXCEPT !.pillow = pillow])

\* the address argument, as an integer or as a string
AddressArgs ==
  {[int |-> 0], [str |-> <<"0", "x", "1">>], [str |-> <<"1">>], [str |-> <<"q">>]}

CallReadMemory ==
  \E arguments \in {<<>>} \cup {[address |-> a] : a \in AddressArgs}
                   \cup {[address |-> a, length |-> n] :
                           a \in AddressArgs, n \in Lengths} :
    \E faults \in FaultSets(Get(arguments, "length", 1)) :
      Call("read_memory", arguments, [Fine EXCEPT !.faults = faults])

\* the writes of the protocol-layer actions: one byte at most
CallWriteMemory ==
  \E arguments \in {<<>>} \cup {[address |-> a] : a \in AddressArgs}
                   \cup {[address |-> a, values |-> v] :
                           a \in {[int |-> 0], [str |-> <<"q">>]},
                           v \in SeqUpTo(ByteInputs, 1)} :
    \E faults \in FaultSets(Len(Get(arguments, "values", <<>>))) :
      Call("write_memory", arguments, [Fine EXCEPT !.faults = faults])

CallSaveState ==
  \E saveOk \in BOOLEAN : Call("save_state", <<>>, [Fine EXCEPT !.saveOk = saveOk])

CallLoadState ==
  \E loadStateOk \in BOOLEAN :
    Call("load_state", <<>>, [Fine EXCEPT !.loadStateOk = loadStateOk])

CallGetRegisters == Call("get_registers", <<>>, Fine)

CallDumpOam ==
  \E arguments \in {<<>>, [active_only |-> FALSE]} : Call("dump_oam", arguments, Fine)

CallReset ==
  \E resetKeys \in BOOLEAN, regs \in ToolRegs :
    Call("reset", <<>>, [Fine EXCEPT !.resetKeys = resetKeys, !.regs = regs])

CallGetInfo ==
  /\ ret = Idle
  /\ \E r \in {call_tool(emu, "get_info", <<>>, Fine)} :
    /\ Returns("get_info", r)
    /\ UNCHANGED <<advanced, n_run>>

\* a name outside the catalogue
CallUnknown ==
  \E name \in {"close", "hold"} : Call(name, <<>>, Fine)

Next ==
  \/ CallLoadRom
  \/ CallRunFrames
  \/ CallPressButton
  \/ CallHoldButtons
  \/ CallReleaseButtons
  \/ CallTakeScreenshot
  \/ CallReadMemory
  \/ CallWriteMemory
  \/ CallSaveState
  \/ CallLoadState
  \/ CallGetRegisters
  \/ CallDumpOam
  \/ CallReset
  \/ CallGetInfo
  \/ CallUnknown
  \/ Deliver

Spec == Init /\ [][Next]_vars

-----------------------------------------------------------------------------
(* The facade: one action per method of Emulator, called directly *)

\* a facade call that advances no frame
Method(op, result) ==
  /\ ret = Idle
  /\ \E r \in {result} :
    /\ Returns(op, r)
    /\ UNCHANGED <<advanced, n_run>>

LoadRom ==
  \E rom_path \in RomPaths, o \in LoadOutcomes :
    Method("load_rom", load_rom(emu, rom_path, o))

Reset ==
  \E resetKeys \in BOOLEAN :
    Method("reset", reset(emu, [Fine EXCEPT !.resetKeys = resetKeys]))

RunFrames ==
  /\ ret = Idle
  /\ \E count \in FrameInputs, regs \in 0..MaxReg :
    \E r \in {run_frames(emu, count, [Fine EXCEPT !.regs = regs])} :
      /\ advanced + count <= MaxFrames
      /\ Returns("run_frames", r)
      /\ Advance(count, r.exc = "")
      /\ n_run' = n_run

PressButton(names) ==
  /\ ret = Idle
  /\ \E button \in names, frames \in FrameInputs, regs \in 0..MaxReg :
    \E r \in {press_button(emu, button, frames, [Fine EXCEPT !.regs = regs])} :
      /\ advanced + frames <= MaxFrames
      /\ Returns("press_button", r)
      /\ Advance(frames, r.exc = "")
      /\ n_run' = n_run

HoldButtons(lists) ==
  \E btns \in lists : Method("hold_buttons", hold_buttons(emu, btns))

ReleaseButtons(lists) ==
  \E btns \in {None} \cup {Some(l) : l \in lists} :
    Method("release_buttons", release_buttons(emu, btns))

SetButtons(lists) ==
  \E btns \in lists : Method("set_buttons", set_buttons(emu, btns))

ClearButtons == Method("clear_buttons", clear_buttons(emu))

TakeScreenshot ==
  \E pillow \in BOOLEAN :
    Method("take_screenshot", take_screenshot(emu, [Fine EXCEPT !.pillow = pillow]))

ReadMemoryAt(address, length, faults) ==
  Method("read_memory",
         read_memory(emu, address, length, [Fine EXCEPT !.faults = faults]))

ReadMemory ==
  \E address \in Addresses, length \in Lengths :
    \E faults \in FaultSets(length) : ReadMemoryAt(address, length, faults)

WriteMemoryAt(address, values, faults) ==
  Method("write_memory",
         write_memory(emu, address, values, [Fine EXCEPT !.faults = faults]))

WriteMemory ==
  \E address \in Addresses, values \in ValueLists :
    \E faults \in FaultSets(Len(values)) : WriteMemoryAt(address, values, faults)

SaveState ==
  \E saveOk \in BOOLEAN :
    Method("save_state", save_state(emu, [Fine EXCEPT !.saveOk = saveOk]))

\* the buffers a caller passes to load_state: the cached savestate cut short,
\* and bytes that no save_state of this session produced, of every length up
\* to the largest state size
StateInputs ==
  {[len |-> n, platform |-> "GBA",
    rom |-> Some([name |-> "emerald", suffix |-> <<".", "G", "B", "A">>]),
    frame |-> MaxFrames, regs |-> MaxReg, mem |-> ZeroMem] : n \in 0..2}
    \cup (IF emu._savestate = None THEN {}
          ELSE {[emu._savestate[1] EXCEPT !.len = n] :
                  n \in 0..(emu._savestate[1].len - 1)})

\* load_state(): the cached savestate
LoadState ==
  \E loadStateOk \in BOOLEAN :
    Method("load_state",
           load_state(emu, None, [Fine EXCEPT !.loadStateOk = loadStateOk]))

\* load_state(state)
LoadStateFrom(states) ==
  \E state \in states, loadStateOk \in BOOLEAN :
    Method("load_state(state)",
           load_state(emu, Some(state), [Fine EXCEPT !.loadStateOk = loadStateOk]))

GetRegisters == Method("get_registers", get_registers(emu))

DumpOam == Method("dump_oam", dump_oam(emu))

GetInfo == Method("get_info", get_info(emu))

Close == Method("close", close(emu))

\* the facade's session and input methods
FacadeNext ==
  \/ LoadRom
  \/ Reset
  \/ RunFrames
  \/ PressButton(ButtonInputs)
  \/ HoldButtons(ButtonLists)
  \/ ReleaseButtons(ButtonLists)
  \/ SetButtons(ButtonLists)
  \/ ClearButtons
  \/ TakeScreenshot
  \/ GetInfo
  \/ Close
  \/ Deliver

FacadeSpec == Init /\ [][FacadeNext]_vars

\* the facade's savestate methods, with one button and one writable byte
StateNext ==
  \/ LoadRom
  \/ Reset
  \/ RunFrames
  \/ PressButton({<<"a">>})
  \/ HoldButtons({<<<<"a">>>>})
  \/ ClearButtons
  \/ \E v \in ByteInputs : WriteMemoryAt(0, <<v>>, {})
  \/ SaveState
  \/ LoadState
  \/ LoadStateFrom(StateInputs)
  \/ Close
  \/ Deliver

StateSpec == Init /\ [][StateNext]_vars

\* the facade's memory and inspection methods
MemoryNext ==
  \/ LoadRom
  \/ RunFrames
  \/ ReadMemory
  \/ WriteMemory
  \/ GetRegisters
  \/ DumpOam
  \/ Close
  \/ Deliver

MemorySpec == Init /\ [][MemoryNext]_vars

\* the ten button names, in the order of their bits
ButtonOrder ==
  << <<"a">>, <<"b">>, <<"s", "e", "l", "e", "c", "t">>, <<"s", "t", "a", "r", "t">>,
     <<"r", "i", "g", "h", "t">>, <<"l", "e", "f", "t">>, <<"u", "p">>,
     <<"d", "o", "w", "n">>, <<"r">>, <<"l">> >>

\* the same names as a caller may capitalise them
ButtonOrderCased ==
  << <<"A">>, <<"B">>, <<"S", "e", "L", "e", "C", "t">>, <<"S", "T", "A", "R", "T">>,
     <<"R", "i", "g", "h", "t">>, <<"L", "E", "F", "T">>, <<"U", "p">>,
     <<"d", "o", "w", "N">>, <<"R">>, <<"L">> >>

\* names of no button: unknown, empty, doubled, cut short
Unmatched == {<<"x">>, <<>>, <<"a", "a">>, <<"s", "e", "l">>}

ButtonNames ==
  {ButtonOrder[k] : k \in DOMAIN ButtonOrder}
    \cup {ButtonOrderCased[k] : k \in DOMAIN ButtonOrderCased}
    \cup Unmatched

\* the facade's button lookup, one name at a time, on both platforms
ButtonNext ==
  \/ LoadRom
  \/ SetButtons({<<n>> : n \in ButtonNames})
  \/ ClearButtons
  \/ Close
  \/ Deliver

ButtonSpec == Init /\ [][ButtonNext]_vars

-----------------------------------------------------------------------------
(* Properties *)

\* the bit positions of the key register
Bits == 0..9

\* the bits of the names of btns that are buttons of the platform of e
Named(e, btns) ==
  {buttons(e)[Lower(btns[j])] :
     j \in {j \in DOMAIN btns : Lower(btns[j]) \in DOMAIN buttons(e)}}

\* C1: at the protocol layer hold_buttons adds to the held set: once a is
\* held, a hold_buttons(["b"]) tool call leaves both a and b held
C1_ToolHoldIsAdditive ==
  [][(/\ HasCore(emu)
      /\ Bit(emu._held_keys, BUTTONS[<<"a">>])
      /\ Call("hold_buttons", [buttons |-> <<<<"b">>>>], Fine))
     => (/\ Bit(emu'._held_keys, BUTTONS[<<"a">>])
         /\ Bit(emu'._held_keys, BUTTONS[<<"b">>]))]_vars

\* C2: Emulator.hold_buttons is additive: for every held bitmask H and every
\* valid list L, after hold_buttons(L) the held bitmask is H OR mask(L), and the
\* core's key register holds the same value
C2_HoldButtonsAdditive ==
  ret = Idle
  => \A btns \in ButtonLists :
       \A r \in {hold_buttons(emu, btns)} :
         r.exc = ""
         => (/\ \A i \in Bits :
                  Bit(r.e._held_keys, i)
                    <=> (Bit(emu._held_keys, i) \/ i \in Named(emu, btns))
             /\ r.e._core[1].keys = r.e._held_keys)

\* hold_buttons has returned with a, b and l held, one more button than a
\* list names
C2_Witness ==
  /\ ret.op = "hold_buttons" /\ ret.exc = ""
  /\ \A n \in {<<"a">>, <<"b">>, <<"l">>} : Bit(emu._held_keys, BUTTONS[n])

\* C3: Emulator.set_buttons replaces the held set: afterwards exactly the
\* buttons of the list are held, whatever was held before, and the core's key
\* register holds the same value
C3_SetButtonsReplaces ==
  ret = Idle
  => \A btns \in ButtonLists :
       \A r \in {set_buttons(emu, btns)} :
         r.exc = ""
         => (/\ \A i \in Bits : Bit(r.e._held_keys, i) <=> i \in Named(emu, btns)
             /\ r.e._core[1].keys = r.e._held_keys)

\* set_buttons has returned on a session that has run frames: only b is held
C3_Witness ==
  /\ ret.op = "set_buttons" /\ ret.exc = ""
  /\ emu._held_keys = 2 ^ BUTTONS[<<"b">>]
  /\ advanced > 0

\* C4: press_button(b, frames) leaves the held bitmask as it was and changes
\* the status of no button other than b in the core's key register
C4_PressButtonLeavesOthers ==
  [][ret'.op = "press_button"
     => \A b \in ButtonInputs :
       PressButton({b})
       => (/\ emu'._held_keys = emu._held_keys
           /\ HasCore(emu) =>
                \A i \in Bits \ Named(emu, <<b>>) :
                  Bit(emu'._core[1].keys, i) <=> Bit(emu._core[1].keys, i))]_vars

\* press_button has pressed and released a while a and b were held
C4_Witness ==
  /\ ret.op = "press_button" /\ ret.exc = ""
  /\ HasCore(emu)
  /\ emu._held_keys = 2 ^ BUTTONS[<<"a">>] + 2 ^ BUTTONS[<<"b">>]
  /\ emu._core[1].keys = 2 ^ BUTTONS[<<"b">>]
  /\ advanced > 0

\* C5: load_state() after a save_state() on the same loaded ROM, whatever
\* frames, button presses and memory writes came between, succeeds and brings
\* the register snapshot and the frame counter back to their values at the save
C5_SaveLoadRoundTrip ==
  (ret.op = "load_state" /\ saved # None)
  => (/\ ret.exc = ""
      /\ get_registers(emu).num = saved[1].regs
      /\ frame_count(emu) = saved[1].frame)

\* load_state() has returned after frames ran past the saved frame counter
C5_Witness ==
  /\ ret.op = "load_state" /\ ret.exc = ""
  /\ saved # None
  /\ advanced > saved[1].frame
  /\ saved[1].regs # 0
  /\ emu._core[1].mem = emu._savestate[1].mem
  /\ emu._savestate[1].mem # ZeroMem

\* the call is refused and the session is what it was
Refused ==
  /\ ret'.exc = "EmulatorError"
  /\ ret'.msg = "State data too small"
  /\ emu' = emu

\* C6: load_state with a buffer shorter than the size the core reports raises
\* EmulatorError and leaves the session as it was: core state, frame counter,
\* held bitmask and cached savestate
C6_ShortStateRefused ==
  [][/\ ret'.op = "load_state(state)" => \A b \in StateInputs :
          (/\ HasCore(emu)
           /\ b.len < stateSize(emu._core[1])
           /\ LoadStateFrom({b})) => Refused
     /\ (/\ HasCore(emu)
         /\ emu._savestate # None
         /\ emu._savestate[1].len < stateSize(emu._core[1])
         /\ LoadState) => Refused]_vars

\* a short buffer has been refused on a session with a held button, frames
\* run and a cached savestate
C6_Witness ==
  /\ ret.op = "load_state(state)" /\ ret.msg = "State data too small"
  /\ emu._held_keys # 0
  /\ frame_count(emu) > 0
  /\ emu._savestate # None

\* C7: with no session read_memory fails with "No ROM loaded" for every
\* address; with a session it never raises and returns exactly `length` values,
\* each in 0..255, with 0 for every byte whose bus access faults
C7_ReadMemoryTotal ==
  [][ret'.op = "read_memory"
     => \A address \in Addresses, length \in Lengths :
       \A faults \in FaultSets(length) :
         ReadMemoryAt(address, length, faults)
         => IF ~HasCore(emu)
            THEN ret'.exc = "EmulatorError" /\ ret'.msg = "No ROM loaded"
            ELSE /\ ret'.exc = ""
                 /\ Len(ret'.list) = length
                 /\ \A i \in 1..length :
                      /\ ret'.list[i] \in 0..255
                      /\ (i - 1) \in faults => ret'.list[i] = 0]_vars

\* read_memory has returned 0 for the first byte of a memory that holds 1
\* everywhere
C7_Witness ==
  /\ ret.op = "read_memory" /\ ret.exc = ""
  /\ ret.list = <<0, 1>>
  /\ HasCore(emu)
  /\ \A a \in DOMAIN emu._core[1].mem : emu._core[1].mem[a] = 1

C9_CallToolNeverRaises ==
  [][/\ ret'.op # "idle"
          => (/\ ret'.exc = ""
              /\ ret'.kind \in {"text", "image", "error"}
              /\ ret'.kind = "error" <=> ret'.msg # "")
     /\ ret'.op \notin TOOLS \cup {"idle"}
          => (/\ ret'.kind = "error"
              /\ ret'.msg = "Unknown tool"
              /\ emu' = emu)]_vars

\* an exception that is not an EmulatorError has ended in an error response
C9_Witness ==
  /\ ret.op \in TOOLS
  /\ ret.kind = "error" /\ ret.msg = "Unexpected error"

C11_ErrorKeepsSession ==
  [][(HasCore(emu) /\ ret'.kind = "error")
     => (/\ is_loaded(emu')
         /\ HasCore(emu')
         /\ emu'._core[1].rom = emu._core[1].rom
         /\ emu'._rom_path = emu._rom_path)]_vars

\* C12: a successful load_rom on a loaded session discards the state of that
\* session: afterwards no button is held and no savestate is cached
C12_LoadRomDiscardsState ==
  [][(HasCore(emu) /\ ret'.op = "load_rom" /\ ret'.exc = "")
     => (/\ HasCore(emu')
         /\ emu'._held_keys = 0
         /\ emu'._savestate = None)]_vars

\* the memory after the first n of values have been written from address on
Written(mem, address, values, n) ==
  [a \in DOMAIN mem |->
     IF (a - address) \in 0..(n - 1) THEN values[a - address + 1] % 256 ELSE mem[a]]

\* C13: write_memory writes in increasing address order and does not roll
\* back: when the write of byte i fails it raises an EmulatorError naming
\* address+i, with bytes 0..i-1 written and bytes i and later not written; when
\* no write fails all the bytes are written, each masked to 0..255
C13_WriteMemoryPartial ==
  [][(ret'.op = "write_memory" /\ HasCore(emu))
     => \A address \in Addresses, values \in ValueLists :
          \A faults \in FaultSets(Len(values)) :
            WriteMemoryAt(address, values, faults)
            => LET n == IF faults = {} THEN Len(values)
                        ELSE CHOOSE i \in faults : \A j \in faults : i <= j
               IN  /\ HasCore(emu')
                   /\ emu'._core[1].mem
                        = Written(emu._core[1].mem, address, values, n)
                   /\ emu' = [emu EXCEPT !._core[1].mem = emu'._core[1].mem]
                   /\ IF faults = {}
                      THEN ret'.exc = ""
                      ELSE /\ ret'.exc = "EmulatorError"
                           /\ ret'.msg = "Failed to write to address"
                           /\ ret'.num = address + n]_vars

\* write_memory has failed at address 1 after writing address 0
C13_Witness ==
  /\ ret.op = "write_memory" /\ ret.exc = "EmulatorError"
  /\ ret.num = 1
  /\ HasCore(emu)
  /\ emu._core[1].mem[0] = 1
  /\ emu._core[1].mem[1] = 0

\* the call is refused as naming no button
InvalidButton ==
  /\ ret'.exc = "EmulatorError"
  /\ ret'.msg = "Invalid button"

\* C14: button names resolve without regard to case against the platform's
\* set: on a GBA session a, b, select, start, right, left, up, down, r, l map
\* to bits 0..9; on a GB-family session the first eight do and r and l are
\* refused with "Invalid button"; a name that matches none is refused the same
C14_ButtonNamesResolve ==
  [][(ret'.op = "set_buttons" /\ HasCore(emu))
     => /\ \A k \in DOMAIN ButtonOrder :
             \A n \in {ButtonOrder[k], ButtonOrderCased[k]} :
               SetButtons({<<n>>})
               => IF emu._core[1].platform = "GBA" \/ k <= 8
                  THEN ret'.exc = "" /\ emu'._held_keys = 2 ^ (k - 1)
                  ELSE InvalidButton
        /\ \A n \in Unmatched : SetButtons({<<n>>}) => InvalidButton]_vars

\* set_buttons has resolved l on a GBA session
C14_Witness ==
  /\ ret.op = "set_buttons" /\ ret.exc = ""
  /\ HasCore(emu) /\ emu._core[1].platform = "GBA"
  /\ emu._held_keys = 2 ^ 9

\* C15: close() releases the core and clears every field: after close(),
\* from any state, the Emulator equals a freshly constructed one (core handle,
\* video buffer, video and screen dimensions and offsets, ROM path, platform
\* flag, cached savestate, held bitmask)
C15_CloseResetsEveryField ==
  [][ret'.op = "close" => emu' = __init__]_vars

\* the facade operations after which the key register is compared
KeyOps ==
  {"load_rom", "reset", "run_frames", "press_button", "hold_buttons",
   "release_buttons", "set_buttons", "clear_buttons", "load_state"}

\* C16: after every completed facade operation on a loaded session the keys
\* the core sees as pressed are the held bitmask _held_keys
C16_CoreKeysAreHeldKeys ==
  (ret.op \in KeyOps /\ ret.exc = "" /\ HasCore(emu))
  => emu._core[1].keys = emu._held_keys

\* C17: a button operation that fails with "Invalid button" changes nothing:
\* the held bitmask, the core's key register and the frame counter are after
\* the call what they were before it
C17_InvalidButtonChangesNothing ==
  [][(/\ ret'.op \in {"press_button", "hold_buttons", "release_buttons",
                      "set_buttons"}
      /\ ret'.msg = "Invalid button")
     => (/\ emu'._held_keys = emu._held_keys
         /\ emu'._core[1].keys = emu._core[1].keys
         /\ frame_count(emu') = frame_count(emu))]_vars

====
